---- MODULE Spec2Model ----
(***************************************************************************)
(* Escrow calculator (escrow_new_loan.py): the 12-slot disbursement        *)
(* calendar, the minimum-deposit solver, the balance simulator and the     *)
(* orchestrator escrow_annual_minimal.                                     *)
(*                                                                         *)
(* Money is held in whole cents (the Python floats carry whole-cent        *)
(* values; their binary noise, about 1e-11 cents at the magnitudes used    *)
(* here, is far below the 0.9999 and 0.005 thresholds the code rounds      *)
(* with).  Quotients the code forms (x / j, annual / 6) are kept exact as  *)
(* numerator/denominator.  Where the result of round(x, 2) depends on the  *)
(* binary representation of an exact half cent, both neighbours are kept   *)
(* as possible outcomes.                                                   *)
(***************************************************************************)
EXTENDS Integers, Sequences, FiniteSets, TLC

VARIABLES pc, record, raised, S0, start, monthly_interest_credit, schedule,
          before, line, annual_disb, policy_cushion, allowed_cushion, m,
          trail, min_bal, surplus, shortage

vars == <<pc, record, raised, S0, start, monthly_interest_credit, schedule,
          before, line, annual_disb, policy_cushion, allowed_cushion, m,
          trail, min_bal, surplus, shortage>>

---------------------------------------------------------------------------
(* Bounds of the explored input space.                                     *)

\* largest single disbursement (cents) given to the solver on its own
MaxDisb == 6
\* largest starting balance (cents) given to the solver on its own
MaxBal == 3
\* largest increase (cents) applied to one charge when two runs are compared
MaxBump == 2
\* last year of the due dates swept through add_line_to_schedule
MaxYear == 2027

---------------------------------------------------------------------------
(* Python values.                                                          *)

\* None, and a key absent from the record (record.get gives None)
None == <<>>

Some(v) == <<v>>

Val(x) == x[1]

Months == 1..12

Min2(a, b) == IF a <= b THEN a ELSE b

Max2(a, b) == IF a >= b THEN a ELSE b

ZeroSchedule == [i \in Months |-> 0]

---------------------------------------------------------------------------
(* Date helpers.                                                           *)

Date(y, mo, d) == [year |-> y, month |-> mo, day |-> d]

first_of_month(d) == Date(d.year, d.month, 1)

\* add_months without the carry into the year
add_months_nocarry(d, n) ==
    LET m0 == d.month - 1 + n
    IN  Date(d.year, (m0 % 12) + 1, 1)

add_months(d, n) ==
    LET m0 == d.month - 1 + n
        y  == d.year + (m0 \div 12)
        m1 == (m0 % 12) + 1
    IN  Date(y, m1, 1)

\* date comparison d1 > d2 (year, month, day in that order)
DateGT(d1, d2) ==
    \/ d1.year > d2.year
    \/ d1.year = d2.year /\ d1.month > d2.month
    \/ d1.year = d2.year /\ d1.month = d2.month /\ d1.day > d2.day

DateGE(d1, d2) == d1 = d2 \/ DateGT(d1, d2)

IsLeap(y) == (y % 4 = 0 /\ y % 100 # 0) \/ y % 400 = 0

DaysInMonth(y, mo) ==
    IF mo = 2 THEN (IF IsLeap(y) THEN 29 ELSE 28)
    ELSE IF mo \in {4, 6, 9, 11} THEN 30 ELSE 31

\* s is None or the three numbers of a "Y-M-D" text; date() rejects a month
\* or day out of range and the except clause turns that into the default
parse_ymd(s, default) ==
    IF s = None THEN default
    ELSE LET t == Val(s)
         IN  IF t[2] \in 1..12 /\ t[3] >= 1 /\ t[3] <= DaysInMonth(t[1], t[2])
             THEN Some(Date(t[1], t[2], t[3]))
             ELSE default

\* str.lower() on the texts the model feeds in
Lower(s) ==
    CASE s = "Yes" -> "yes"
      [] s = "TRUE" -> "true"
      [] s = "Quarterly" -> "quarterly"
      [] s = "Monthly" -> "monthly"
      [] OTHER -> s

\* str(x).strip().lower() in ("1", "true", "t", "yes", "y")
Truthy(x) ==
    IF x = None THEN FALSE
    ELSE Lower(Val(x)) \in {"1", "true", "t", "yes", "y"}

---------------------------------------------------------------------------
(* add_line_to_schedule                                                    *)

\* month index of d relative to start_month
MonthIdx(d, st) == (d.year - st.year) * 12 + (d.month - st.month) + 1

\* maybe_add taking the amount off the slot
maybe_add_subtract(sched, d, st, amt) ==
    LET idx == MonthIdx(d, st)
    IN  IF 1 <= idx /\ idx <= 12
        THEN [sched EXCEPT ![idx] = @ - amt]
        ELSE sched

maybe_add(sched, d, st, amt) ==
    LET idx == MonthIdx(d, st)
    IN  IF 1 <= idx /\ idx <= 12
        THEN [sched EXCEPT ![idx] = @ + amt]
        ELSE sched

\* for off in offs: maybe_add(add_months(first_of_month(first_due), off))
RECURSIVE AddOffsets(_, _, _, _, _)
AddOffsets(sched, offs, due, st, amt) ==
    IF offs = <<>> THEN sched
    ELSE AddOffsets(maybe_add(sched, add_months(first_of_month(due), Head(offs)), st, amt),
                    Tail(offs), due, st, amt)

\* for i in range(12): d = add_months(first_of_month(start_month), i);
\*                     if d >= m0: maybe_add(d)
RECURSIVE AddMonthly(_, _, _, _, _)
AddMonthly(sched, i, m0, st, amt) ==
    IF i >= 12 THEN sched
    ELSE LET d == add_months(first_of_month(st), i)
         IN  AddMonthly(IF DateGE(d, m0) THEN maybe_add(sched, d, st, amt) ELSE sched,
                        i + 1, m0, st, amt)

\* amount: None or Some(cents); first_due: None or Some(date);
\* start_month: a date; freq: None or Some(text)
add_line_to_schedule(sched, amount, first_due, st, freq) ==
    IF amount = None \/ Val(amount) = 0 \/ Val(amount) <= 0 \/ first_due = None
    THEN sched
    ELSE LET amt == Val(amount)
             due == Val(first_due)
             f   == Lower(IF freq = None \/ Val(freq) = "" THEN "annual" ELSE Val(freq))
         IN  IF f \in {"once", "annual"}
                 THEN maybe_add(sched, first_of_month(due), st, amt)
             ELSE IF f = "semiannual"
                 THEN AddOffsets(sched, <<0, 6>>, due, st, amt)
             ELSE IF f = "quarterly"
                 THEN AddOffsets(sched, <<0, 3, 6, 9>>, due, st, amt)
             ELSE IF f = "monthly"
                 THEN AddMonthly(sched, 0, first_of_month(due), st, amt)
             ELSE maybe_add(sched, first_of_month(due), st, amt)

---------------------------------------------------------------------------
(* required_monthly_deposit                                                *)

\* float(x or 0.0)
OrZero(x) == IF x = None THEN 0 ELSE Val(x)

\* the loop with the interest credit left out of rhs
RECURSIVE WorstNeededNoCredit(_, _, _, _, _, _, _, _)
WorstNeededNoCredit(j, cum, wn, wd, bal, sched, credit, cushion) ==
    IF j > 12 THEN <<wn, wd>>
    ELSE LET cum2 == cum + sched[j]
             rn   == cum2 - bal - cushion
         IN  IF rn * wd > wn * j
             THEN WorstNeededNoCredit(j + 1, cum2, rn, j, bal, sched, credit, cushion)
             ELSE WorstNeededNoCredit(j + 1, cum2, wn, wd, bal, sched, credit, cushion)

\* The loop over j = 1..12.  worst_needed is the exact quotient wn / wd
\* (cents per month); rhs is (cum - S0 - j*credit - cushion) / j.
RECURSIVE WorstNeeded(_, _, _, _, _, _, _, _)
WorstNeeded(j, cum, wn, wd, bal, sched, credit, cushion) ==
    IF j > 12 THEN <<wn, wd>>
    ELSE LET cum2 == cum + sched[j]
             rn   == cum2 - bal - j * credit - cushion
         IN  IF rn * wd > wn * j
             THEN WorstNeeded(j + 1, cum2, rn, j, bal, sched, credit, cushion)
             ELSE WorstNeeded(j + 1, cum2, wn, wd, bal, sched, credit, cushion)

\* int(m * 100) / 100.0: the deposit truncated to cents
RoundDownCents(n, d) == n \div d

\* int(m * 100 + 1) / 100.0: a cent added even to an exact amount
RoundUpAlways(n, d) == (n \div d) + 1

\* m = (int(m * 100 + 0.9999)) / 100.0 on the quotient n / d >= 0 of cents:
\* int() truncates n/d + 9999/10000
RoundUpCents(n, d) == (n * 10000 + 9999 * d) \div (10000 * d)

\* start_balance, monthly_interest_credit, cushion_allowed: None or Some(cents)
required_monthly_deposit(start_balance, sched, credit_in, cushion_allowed) ==
    LET bal     == OrZero(start_balance)
        credit  == OrZero(credit_in)
        cushion == OrZero(cushion_allowed)
        w       == WorstNeeded(1, 0, 0, 1, bal, sched, credit, cushion)
        mn      == IF w[1] > 0 THEN w[1] ELSE 0
    IN  RoundUpCents(mn, w[2])

---------------------------------------------------------------------------
(* simulate_balances                                                       *)

\* the replay with the interest credit never added
RECURSIVE SimLoopNoCredit(_, _, _, _, _, _)
SimLoopNoCredit(j, bal, tr, dep, sched, credit) ==
    IF j > 12 THEN tr
    ELSE LET b3 == bal + dep - sched[j]
         IN  SimLoopNoCredit(j + 1, b3, Append(tr, b3), dep, sched, credit)

RECURSIVE SimLoop(_, _, _, _, _, _)
SimLoop(j, bal, tr, dep, sched, credit) ==
    IF j > 12 THEN tr
    ELSE LET b1 == bal + dep
             b2 == IF credit # 0 THEN b1 + credit ELSE b1
             b3 == b2 - sched[j]
         IN  SimLoop(j + 1, b3, Append(tr, b3), dep, sched, credit)

RECURSIVE SeqMin(_)
SeqMin(s) ==
    IF Len(s) = 1 THEN s[1]
    ELSE Min2(s[1], SeqMin(Tail(s)))

\* returns <<trail, min(trail)>>
simulate_balances(bal_in, dep, sched, credit_in) ==
    LET tr == SimLoop(1, OrZero(bal_in), <<>>, dep, sched, OrZero(credit_in))
    IN  <<tr, SeqMin(tr)>>

---------------------------------------------------------------------------
(* escrow_annual_minimal: the pieces of the calculation.                   *)
(* A record maps each key the code reads to None (key absent) or Some(v);  *)
(* amounts are cents, dates the three numbers of the "Y-M-D" text.         *)

\* tax_amt is float(...) of the tax amount key (lines 119-123)
TaxLine(rec, sched, st) ==
    add_line_to_schedule(sched, rec.tax_amount, parse_ymd(rec.tax_due, None), st,
                         IF rec.tax_freq = None \/ Val(rec.tax_freq) = ""
                         THEN Some("annual") ELSE rec.tax_freq)

\* lines 126-130
HazardLine(rec, sched, st) ==
    LET hazard_escrowed == Truthy(rec.hazard_line)
        hazard_amt      == OrZero(rec.hazard_amount)
        hazard_due      == parse_ymd(rec.hazard_due, None)
    IN  IF hazard_escrowed /\ hazard_amt > 0 /\ hazard_due # None
        THEN add_line_to_schedule(sched, Some(hazard_amt), hazard_due, st, Some("annual"))
        ELSE sched

\* lines 133-136
FloodLine(rec, sched, st) ==
    LET flood_amt == OrZero(rec.flood_amount)
        parsed    == parse_ymd(rec.flood_due, None)
        flood_due == IF parsed = None THEN Some(st) ELSE parsed
    IN  IF flood_amt > 0
        THEN add_line_to_schedule(sched, Some(flood_amt), flood_due, st, Some("annual"))
        ELSE sched

\* the loop breaking already in the end month
RECURSIVE PmiLoopExclusive(_, _, _, _, _)
PmiLoopExclusive(j, sched, st, pmi_end, pmi_monthly) ==
    IF j > 12 THEN sched
    ELSE LET mdate == add_months(st, j - 1)
         IN  IF pmi_end # None
                /\ DateGE(first_of_month(mdate), first_of_month(Val(pmi_end)))
             THEN sched
             ELSE PmiLoopExclusive(j + 1, [sched EXCEPT ![j] = @ + pmi_monthly],
                                   st, pmi_end, pmi_monthly)

\* for j in range(1, 13): break once the month is after the end month
RECURSIVE PmiLoop(_, _, _, _, _)
PmiLoop(j, sched, st, pmi_end, pmi_monthly) ==
    IF j > 12 THEN sched
    ELSE LET mdate == add_months(st, j - 1)
         IN  IF pmi_end # None
                /\ DateGT(first_of_month(mdate), first_of_month(Val(pmi_end)))
             THEN sched
             ELSE PmiLoop(j + 1, [sched EXCEPT ![j] = @ + pmi_monthly],
                          st, pmi_end, pmi_monthly)

\* lines 139-147
PmiLine(rec, sched, st) ==
    LET pmi_on      == Truthy(rec.pmi_indicator)
        pmi_monthly == OrZero(rec.pmi_amount)
        pmi_end     == parse_ymd(rec.pmi_end, None)
    IN  IF pmi_on /\ pmi_monthly > 0
        THEN PmiLoop(1, sched, st, pmi_end, pmi_monthly)
        ELSE sched

\* lines 150-154
HoaLine(rec, sched, st) ==
    LET hoa_amt  == OrZero(rec.hoa_amount)
        hoa_due  == parse_ymd(rec.hoa_due, None)
        hoa_freq == IF rec.hoa_freq = None \/ Val(rec.hoa_freq) = ""
                    THEN Some("annual") ELSE rec.hoa_freq
    IN  IF hoa_amt > 0 /\ hoa_due # None
        THEN add_line_to_schedule(sched, Some(hoa_amt), hoa_due, st, hoa_freq)
        ELSE sched

\* the schedule as it stands at line 155
BuildSchedule(rec, st) ==
    HoaLine(rec, PmiLine(rec, FloodLine(rec, HazardLine(rec,
        TaxLine(rec, ZeroSchedule, st), st), st), st), st)

RECURSIVE SumTo(_, _)
SumTo(sched, j) == IF j = 0 THEN 0 ELSE sched[j] + SumTo(sched, j - 1)

\* annual_disb = round(sum(schedule.values()), 2): a sum of whole cents
AnnualDisb(sched) == SumTo(sched, 12)

\* policy_cushion = float(record.get("Escrow Cushion", annual_disb / 6.0)
\*                        or (annual_disb / 6.0)), as the quotient <<n, d>>
PolicyCushion(rec, annual) ==
    IF rec.escrow_cushion = None \/ Val(rec.escrow_cushion) = 0
    THEN <<annual, 6>>
    ELSE <<Val(rec.escrow_cushion), 1>>

\* min(policy_cushion, annual_disb / 6.0) as a quotient
MinCushion(policy, annual) ==
    IF policy[1] * 6 <= annual * policy[2] THEN policy ELSE <<annual, 6>>

\* round(n / d, 2) on cents: the nearest cent; on an exact half cent the
\* result follows the binary value of the float, either neighbour
Round2(n, d) ==
    LET q == n \div d
        r == n % d
    IN  IF 2 * r < d THEN {q}
        ELSE IF 2 * r > d THEN {q + 1}
        ELSE {q, q + 1}

\* allowed_cushion = round(min(policy_cushion, annual_disb / 6.0), 2)
AllowedCushion(policy, annual) ==
    LET c == MinCushion(policy, annual)
    IN  Round2(c[1], c[2])

---------------------------------------------------------------------------
(* Input spaces.                                                           *)

Rec(bal, dt, cr, cu, tx, hz, fl, pm, ho) ==
    [escrow_balance |-> bal, completion_date |-> dt, interest_amount |-> cr,
     escrow_cushion |-> cu,
     tax_amount |-> tx[1], tax_due |-> tx[2], tax_freq |-> tx[3],
     hazard_line |-> hz[1], hazard_amount |-> hz[2], hazard_due |-> hz[3],
     flood_amount |-> fl[1], flood_due |-> fl[2],
     pmi_indicator |-> pm[1], pmi_amount |-> pm[2], pmi_end |-> pm[3],
     hoa_amount |-> ho[1], hoa_due |-> ho[2], hoa_freq |-> ho[3]]

NoRecord == Rec(None, None, None, None, <<None, None, None>>, <<None, None, None>>,
                <<None, None>>, <<None, None, None>>, <<None, None, None>>)

Balances == {None, Some(0), Some(-7), Some(25)}

StartDates == {None, Some(<<2025, 9, 15>>), Some(<<2025, 12, 1>>)}

Credits == {None, Some(0), Some(2)}

Cushions == {None, Some(0), Some(4)}

TaxCases ==
    { <<None, Some(<<2025, 9, 20>>), None>>,
      <<Some(0), Some(<<2025, 9, 20>>), None>>,
      <<Some(60), Some(<<2025, 9, 20>>), None>>,
      <<Some(60), Some(<<2025, 9, 20>>), Some("Quarterly")>>,
      <<Some(60), Some(<<2026, 3, 1>>), Some("semiannual")>> }

HazardCases ==
    { <<Some("no"), Some(30), Some(<<2026, 5, 1>>)>>,
      <<Some("Yes"), Some(30), Some(<<2026, 5, 1>>)>>,
      <<Some("true"), Some(30), Some(<<2026, 2, 30>>)>> }

FloodCases ==
    { <<None, None>>, <<Some(4), None>>, <<Some(4), Some(<<2026, 1, 10>>)>> }

PmiCases ==
    { <<None, Some(5), None>>,
      <<Some("Yes"), Some(5), None>>,
      <<Some("true"), Some(5), Some(<<2025, 12, 31>>)>>,
      <<Some("true"), Some(5), Some(<<2025, 6, 30>>)>>,
      <<Some("TRUE"), Some(5), Some(<<2026, 11, 5>>)>> }

HoaCases ==
    { <<None, Some(<<2026, 8, 1>>), None>>,
      <<Some(2), Some(<<2026, 8, 1>>), None>>,
      <<Some(2), Some(<<2026, 2, 1>>), Some("Monthly")>> }

Records ==
    { Rec(bal, dt, cr, cu, tx, hz, fl, pm, ho) :
        bal \in Balances, dt \in StartDates, cr \in Credits, cu \in Cushions,
        tx \in TaxCases, hz \in HazardCases, fl \in FloodCases,
        pm \in PmiCases, ho \in HoaCases }

NoLine == [amount |-> None, first_due |-> None, start_month |-> Date(2025, 9, 1),
           freq |-> None]

---------------------------------------------------------------------------
(* escrow_annual_minimal, one step per block of the function.              *)

Init ==
    /\ pc = "read"
    /\ record \in Records
    /\ raised = ""
    /\ S0 = 0
    /\ start = None
    /\ monthly_interest_credit = 0
    /\ schedule = ZeroSchedule
    /\ before = ZeroSchedule
    /\ line = NoLine
    /\ annual_disb = 0
    /\ policy_cushion = <<0, 1>>
    /\ allowed_cushion = 0
    /\ m = 0
    /\ trail = <<>>
    /\ min_bal = 0
    /\ surplus = 0
    /\ shortage = 0

\* lines 105-116: float(None) raises TypeError, first_of_month(None)
\* raises AttributeError
ReadInputs ==
    /\ pc = "read"
    /\ LET st == parse_ymd(record.completion_date, None)
       IN  IF record.escrow_balance = None
           THEN /\ pc' = "raised"
                /\ raised' = "TypeError: Escrow Balance"
                /\ UNCHANGED <<S0, start, monthly_interest_credit>>
           ELSE IF st = None
           THEN /\ pc' = "raised"
                /\ raised' = "AttributeError: Escrow Analysis Completion Date"
                /\ S0' = Val(record.escrow_balance)
                /\ UNCHANGED <<start, monthly_interest_credit>>
           ELSE IF record.interest_amount = None
           THEN /\ pc' = "raised"
                /\ raised' = "TypeError: Interest on Escrow Payment Amount"
                /\ S0' = Val(record.escrow_balance)
                /\ start' = Some(first_of_month(Val(st)))
                /\ UNCHANGED monthly_interest_credit
           ELSE /\ pc' = "tax"
                /\ S0' = Val(record.escrow_balance)
                /\ start' = Some(first_of_month(Val(st)))
                /\ monthly_interest_credit' = Val(record.interest_amount)
                /\ UNCHANGED raised
    /\ schedule' = ZeroSchedule
    /\ UNCHANGED <<record, before, line, annual_disb, policy_cushion,
                   allowed_cushion, m, trail, min_bal, surplus, shortage>>

\* lines 118-123
AddTax ==
    /\ pc = "tax"
    /\ IF record.tax_amount = None
       THEN /\ pc' = "raised"
            /\ raised' = "TypeError: Tax Payee Amount"
            /\ UNCHANGED <<schedule, before>>
       ELSE /\ pc' = "hazard"
            /\ before' = schedule
            /\ schedule' = TaxLine(record, schedule, Val(start))
            /\ UNCHANGED raised
    /\ UNCHANGED <<record, S0, start, monthly_interest_credit, line, annual_disb,
                   policy_cushion, allowed_cushion, m, trail, min_bal, surplus,
                   shortage>>

\* lines 125-130
AddHazard ==
    /\ pc = "hazard"
    /\ pc' = "flood"
    /\ before' = schedule
    /\ schedule' = HazardLine(record, schedule, Val(start))
    /\ UNCHANGED <<record, raised, S0, start, monthly_interest_credit, line,
                   annual_disb, policy_cushion, allowed_cushion, m, trail,
                   min_bal, surplus, shortage>>

\* lines 132-136
AddFlood ==
    /\ pc = "flood"
    /\ pc' = "pmi"
    /\ before' = schedule
    /\ schedule' = FloodLine(record, schedule, Val(start))
    /\ UNCHANGED <<record, raised, S0, start, monthly_interest_credit, line,
                   annual_disb, policy_cushion, allowed_cushion, m, trail,
                   min_bal, surplus, shortage>>

\* lines 138-147
AddPMI ==
    /\ pc = "pmi"
    /\ pc' = "hoa"
    /\ before' = schedule
    /\ schedule' = PmiLine(record, schedule, Val(start))
    /\ UNCHANGED <<record, raised, S0, start, monthly_interest_credit, line,
                   annual_disb, policy_cushion, allowed_cushion, m, trail,
                   min_bal, surplus, shortage>>

\* lines 149-154
AddHOA ==
    /\ pc = "hoa"
    /\ pc' = "cushion"
    /\ before' = schedule
    /\ schedule' = HoaLine(record, schedule, Val(start))
    /\ UNCHANGED <<record, raised, S0, start, monthly_interest_credit, line,
                   annual_disb, policy_cushion, allowed_cushion, m, trail,
                   min_bal, surplus, shortage>>

\* lines 156-163
Cushion ==
    /\ pc = "cushion"
    /\ pc' = "solve"
    /\ annual_disb' = AnnualDisb(schedule)
    /\ policy_cushion' = PolicyCushion(record, annual_disb')
    /\ allowed_cushion' \in AllowedCushion(policy_cushion', annual_disb')
    /\ UNCHANGED <<record, raised, S0, start, monthly_interest_credit, schedule,
                   before, line, m, trail, min_bal, surplus, shortage>>

\* lines 165-166
Solve ==
    /\ pc = "solve"
    /\ pc' = "simulate"
    /\ m' = required_monthly_deposit(Some(S0), schedule,
                                     Some(monthly_interest_credit),
                                     Some(allowed_cushion))
    /\ UNCHANGED <<record, raised, S0, start, monthly_interest_credit, schedule,
                   before, line, annual_disb, policy_cushion, allowed_cushion,
                   trail, min_bal, surplus, shortage>>

\* lines 168-171, then the result is returned
Simulate ==
    /\ pc = "simulate"
    /\ pc' = "done"
    /\ LET r == simulate_balances(Some(S0), m, schedule, Some(monthly_interest_credit))
       IN  /\ trail' = r[1]
           /\ min_bal' = r[2]
           /\ surplus' = Max2(0, r[2] + allowed_cushion)
           /\ shortage' = Max2(0, -(r[2] + allowed_cushion))
    /\ UNCHANGED <<record, raised, S0, start, monthly_interest_credit, schedule,
                   before, line, annual_disb, policy_cushion, allowed_cushion, m>>

Next ==
    \/ ReadInputs
    \/ AddTax
    \/ AddHazard
    \/ AddFlood
    \/ AddPMI
    \/ AddHOA
    \/ Cushion
    \/ Solve
    \/ Simulate

Spec == Init /\ [][Next]_vars

---------------------------------------------------------------------------
(* add_line_to_schedule on its own: one call on a swept line.              *)

LineStarts == {Date(2025, 9, 1), Date(2025, 12, 15), Date(2026, 1, 1)}

LineDues ==
    {None} \cup {Some(Date(y, mo, d)) : y \in 2024..MaxYear, mo \in 1..12, d \in {1, 28}}

LineFreqs ==
    {None, Some(""), Some("once"), Some("annual"), Some("semiannual"),
     Some("quarterly"), Some("monthly"), Some("Quarterly"), Some("weekly")}

LineAmounts == {None, Some(-5), Some(0), Some(5)}

LineSchedules == {ZeroSchedule, [i \in Months |-> i]}

InitLine ==
    /\ pc = "line"
    /\ record = NoRecord
    /\ raised = ""
    /\ S0 = 0
    /\ start = None
    /\ monthly_interest_credit = 0
    /\ schedule \in LineSchedules
    /\ before = ZeroSchedule
    /\ line \in [amount : LineAmounts, first_due : LineDues,
                 start_month : LineStarts, freq : LineFreqs]
    /\ annual_disb = 0
    /\ policy_cushion = <<0, 1>>
    /\ allowed_cushion = 0
    /\ m = 0
    /\ trail = <<>>
    /\ min_bal = 0
    /\ surplus = 0
    /\ shortage = 0

\* lines 25-61
AddLine ==
    /\ pc = "line"
    /\ pc' = "added"
    /\ before' = schedule
    /\ schedule' = add_line_to_schedule(schedule, line.amount, line.first_due,
                                        line.start_month, line.freq)
    /\ UNCHANGED <<record, raised, S0, start, monthly_interest_credit, line,
                   annual_disb, policy_cushion, allowed_cushion, m, trail,
                   min_bal, surplus, shortage>>

NextLine == AddLine

SpecLine == InitLine /\ [][NextLine]_vars

---------------------------------------------------------------------------
(* required_monthly_deposit and simulate_balances on their own: the solver *)
(* and the simulator on a swept balance, schedule, credit and cushion.     *)

SolverSlots == {<<1, 7>>, <<3, 12>>, <<5, 6>>, <<11, 12>>}

SolverSchedules ==
    { [i \in Months |-> IF i = p[1] THEN x ELSE IF i = p[2] THEN y ELSE 0] :
        p \in SolverSlots, x \in 0..MaxDisb, y \in 0..MaxDisb }

SolverBalances == -2..MaxBal

SolverCredits == {-1, 0, 1, 2}

SolverCushions == {-1, 0, 1, 3}

InitSolver ==
    /\ pc = "solve"
    /\ record = NoRecord
    /\ raised = ""
    /\ S0 \in SolverBalances
    /\ start = None
    /\ monthly_interest_credit \in SolverCredits
    /\ schedule \in SolverSchedules
    /\ before = ZeroSchedule
    /\ line = NoLine
    /\ annual_disb = 0
    /\ policy_cushion = <<0, 1>>
    /\ allowed_cushion \in SolverCushions
    /\ m = 0
    /\ trail = <<>>
    /\ min_bal = 0
    /\ surplus = 0
    /\ shortage = 0

NextSolver ==
    \/ Solve
    \/ Simulate

SpecSolver == InitSolver /\ [][NextSolver]_vars

---------------------------------------------------------------------------
(* Properties.                                                             *)

\* the balance floor at month j with a monthly deposit of dep cents
FloorHolds(dep, j) ==
    S0 + j * dep + j * monthly_interest_credit - SumTo(schedule, j) >= -allowed_cushion

Feasible(dep) == \A j \in Months : FloorHolds(dep, j)

Solved == pc \in {"simulate", "done"}

\* C1: after escrow_annual_minimal returns, every month j in 1..12 has
\* S0 + j*m + j*C - (D[1]+...+D[j]) >= -K for the returned deposit m and
\* cushion K, the returned shortage is 0 and min_projected_balance >= -K.
C1_BalanceFloor ==
    pc = "done" =>
        /\ \A j \in Months : FloorHolds(m, j)
        /\ shortage = 0
        /\ min_bal >= -allowed_cushion

\* a returned run whose deposit is positive, whose lowest month sits exactly
\* on the floor and whose cushion came out of the 1/6 cap
C1_Witness ==
    /\ pc = "done"
    /\ m > 0
    /\ annual_disb > 0
    /\ min_bal = -allowed_cushion
    /\ allowed_cushion > 0
    /\ surplus = 0

\* C2: required_monthly_deposit returns the smallest whole-cent deposit
\* m >= 0 that keeps every month at or above -K: m meets the floor in all
\* twelve months and no smaller non-negative whole-cent deposit does.
C2_Minimal ==
    Solved =>
        /\ m >= 0
        /\ Feasible(m)
        /\ \A x \in 0..(m - 1) : ~Feasible(x)

\* a solved case where the exact requirement is not a whole cent: the
\* deposit is positive and no month lands exactly on the floor
C2_Witness ==
    /\ Solved
    /\ m > 1
    /\ \A j \in Months :
          S0 + j * m + j * monthly_interest_credit - SumTo(schedule, j)
            # -allowed_cushion

\* the deposit the solver gives for the same balance, schedule and cushion
\* with no interest credit
DepositNoCredit ==
    required_monthly_deposit(Some(S0), schedule, Some(0), Some(allowed_cushion))

\* C9: with a monthly interest credit of at least one cent the deposit is
\* never greater than the deposit computed with no credit, and it is
\* strictly smaller whenever the deposit computed with no credit is positive.
C9_CreditLowers ==
    (Solved /\ monthly_interest_credit >= 1) =>
        /\ m <= DepositNoCredit
        /\ (DepositNoCredit > 0 => m < DepositNoCredit)

\* a solved case with a credit where the deposit stays positive but is
\* smaller than without the credit
C9_Witness ==
    /\ Solved
    /\ monthly_interest_credit >= 1
    /\ m > 0
    /\ m < DepositNoCredit

\* the month-end balances are S0 + j*C
FlatTrail == \A j \in Months : trail[j] = S0 + j * monthly_interest_credit

\* C4 as stated: with an all-zero schedule, for every starting balance and
\* interest credit, the deposit is 0 and month j ends at S0 + j*C.
C4_AsStated ==
    (pc = "done" /\ schedule = ZeroSchedule) => (m = 0 /\ FlatTrail)

\* C4 amended: with an all-zero schedule and S0 + j*C + K >= 0 in every
\* month j (so in particular for S0, C, K >= 0), the deposit is 0 and
\* month j ends at S0 + j*C.
C4_Amended ==
    (/\ pc = "done"
     /\ schedule = ZeroSchedule
     /\ \A j \in Months : S0 + j * monthly_interest_credit + allowed_cushion >= 0)
        => (m = 0 /\ FlatTrail)

\* an all-zero schedule with a positive balance and a credit, simulated
C4_Witness ==
    /\ pc = "done"
    /\ schedule = ZeroSchedule
    /\ S0 > 0
    /\ monthly_interest_credit > 0
    /\ m = 0
    /\ trail[12] = S0 + 12 * monthly_interest_credit

\* the record keys that hold the amount of a charge
AmountFields ==
    {"tax_amount", "hazard_amount", "flood_amount", "pmi_amount", "hoa_amount"}

\* the record with one charge's amount raised by d cents
Bumped(rec, f, d) == [rec EXCEPT ![f] = Some(Val(@) + d)]

\* the cushions escrow_annual_minimal can return on rec (same start date)
CushionsOf(rec) ==
    LET sched  == BuildSchedule(rec, Val(start))
        annual == AnnualDisb(sched)
    IN  AllowedCushion(PolicyCushion(rec, annual), annual)

\* new_monthly_escrow of escrow_annual_minimal on rec when its cushion is k
DepositOf(rec, k) ==
    required_monthly_deposit(Some(S0), BuildSchedule(rec, Val(start)),
                             Some(monthly_interest_credit), Some(k))

\* the cushion of rec does not hang on how a half cent is rounded
ExactCushion(rec) == Cardinality(CushionsOf(rec)) = 1

\* C3 as stated: raising the amount of any single charge, everything else
\* in the record fixed, never lowers the returned new_monthly_escrow.
\* (Compared on runs whose cushion is not an exact half cent, where the
\* returned cushion is a single value.)
C3_AsStated ==
    (pc = "done" /\ ExactCushion(record)) =>
        \A f \in AmountFields : \A d \in 1..MaxBump :
            record[f] # None =>
                LET r2 == Bumped(record, f, d)
                IN  ExactCushion(r2) =>
                        \A k \in CushionsOf(r2) : DepositOf(r2, k) >= m

\* C3 amended: raising the amount of any single charge never lowers the
\* returned new_monthly_escrow provided the returned allowed_cushion is the
\* same in both runs (the 1/6 cap moves with the annual total otherwise).
C3_Amended ==
    pc = "done" =>
        \A f \in AmountFields : \A d \in 1..MaxBump :
            record[f] # None =>
                LET r2 == Bumped(record, f, d)
                IN  \A k \in CushionsOf(r2) :
                        k = allowed_cushion => DepositOf(r2, k) >= m

\* a returned run with a binding policy ceiling where raising the tax bill
\* leaves the cushion alone and raises the deposit
C3_Witness ==
    /\ pc = "done"
    /\ record.escrow_cushion = Some(4)
    /\ allowed_cushion = 4
    /\ record.tax_amount = Some(60)
    /\ CushionsOf(Bumped(record, "tax_amount", 1)) = {4}
    /\ DepositOf(Bumped(record, "tax_amount", 1), 4) > m

\* C5: the returned allowed_cushion never exceeds one sixth of the returned
\* annual_disbursements: 6 * allowed_cushion <= annual_disbursements.
\* (Stated on runs whose cushion is not an exact half cent.)
C5_CushionCap ==
    (pc = "done" /\ ExactCushion(record)) => 6 * allowed_cushion <= annual_disb

\* C6: for a supplied ceiling P >= 0 (P = 0 included) the returned cushion
\* is min(P, annual/6), to the cent; annual/6 alone is used only when no
\* ceiling is supplied.
C6_CushionSelection ==
    (pc = "done" /\ record.escrow_cushion # None /\ Val(record.escrow_cushion) >= 0) =>
        LET P == Val(record.escrow_cushion)
        IN  IF 6 * P <= annual_disb
            THEN allowed_cushion = P
            ELSE allowed_cushion \in Round2(annual_disb, 6)

\* the occurrence offsets of a frequency, in months
Offs(f) ==
    CASE f = "semiannual" -> {0, 6}
      [] f = "quarterly" -> {0, 3, 6, 9}
      [] OTHER -> {0}

\* month index of the line's due date, 1 = the window's start month
DueIndex ==
    (Val(line.first_due).year - line.start_month.year) * 12
        + (Val(line.first_due).month - line.start_month.month) + 1

\* the frequency the line is expanded with
LineFreq == Lower(IF line.freq \in {None, Some("")} THEN "annual" ELSE Val(line.freq))

\* the slots the line is to be charged to
ExpectedSlots ==
    IF LineFreq = "monthly"
    THEN {k \in Months : k >= Max2(1, DueIndex)}
    ELSE {DueIndex + off : off \in Offs(LineFreq)} \cap Months

\* C7: add_line_to_schedule with a positive amount a and a due date of
\* month index i adds a to exactly the slots i + off, off in Offs(freq),
\* that lie in 1..12 (for monthly: every slot from max(1, i) through 12)
\* and changes no other slot; a non-positive or missing amount changes none.
C7_FrequencyExpansion ==
    pc = "added" =>
        IF line.amount # None /\ Val(line.amount) > 0 /\ line.first_due # None
        THEN \A k \in Months :
                schedule[k] = before[k] + (IF k \in ExpectedSlots THEN Val(line.amount) ELSE 0)
        ELSE schedule = before

\* a quarterly line first due three months before the window: the
\* occurrence before the window is dropped, slots 1, 4 and 7 are charged
C7_Witness ==
    /\ pc = "added"
    /\ line.amount = Some(5)
    /\ line.first_due # None
    /\ LineFreq = "quarterly"
    /\ DueIndex = -2
    /\ schedule[1] = before[1] + 5
    /\ schedule[7] = before[7] + 5
    /\ schedule[10] = before[10]

\* month index of the PMI end date, 1 = the window's start month
PmiEndIndex ==
    LET e == Val(parse_ymd(record.pmi_end, None))
    IN  (e.year - Val(start).year) * 12 + (e.month - Val(start).month) + 1

\* C8: with PMI active and a positive monthly premium p the calendar
\* builder adds p to month j exactly when no end date is given or month j
\* is not after the end date's month (months 1..e for an end date in window
\* month e, none for an end before the window, all twelve for e >= 12).
C8_PmiWindow ==
    (pc = "hoa" /\ Truthy(record.pmi_indicator) /\ OrZero(record.pmi_amount) > 0) =>
        \A j \in Months :
            schedule[j] = before[j]
                + (IF parse_ymd(record.pmi_end, None) = None \/ j <= PmiEndIndex
                   THEN Val(record.pmi_amount) ELSE 0)

\* PMI of 5 a month ending in window month 4: months 1-4 charged, month 5 not
C8_Witness ==
    /\ pc = "hoa"
    /\ Truthy(record.pmi_indicator)
    /\ record.pmi_amount = Some(5)
    /\ parse_ymd(record.pmi_end, None) # None
    /\ PmiEndIndex = 4
    /\ schedule[1] = before[1] + 5
    /\ schedule[4] = before[4] + 5
    /\ schedule[5] = before[5]

\* C10: escrow_annual_minimal never ends in an error because a monetary
\* field is missing: with a usable analysis date it always returns.
C10_NoErrorOnMissingMoney ==
    pc = "raised" => parse_ymd(record.completion_date, None) = None

====
